---- MODULE Spec2Model ----
(***************************************************************************)
(* Tile-parallel Mandelbrot renderer (p5.js.mandelbrot1.js).               *)
(*                                                                         *)
(* The main thread runs setup(), which computes the geometry of one tile   *)
(* of a ROWS x COLS grid and calls renderTileWithWorkers(), which splits   *)
(* the tile into horizontal strips and posts one message per non-empty     *)
(* strip to a fresh Web Worker.  Each worker renders its rows and posts    *)
(* the pixel buffer back; the main thread's onmessage handler copies it    *)
(* into the canvas, counts it and, when the counter reaches WORKER_COUNT,  *)
(* saves the canvas and terminates the workers.                            *)
(*                                                                         *)
(* JavaScript doubles are modelled as fixed-point numbers with FracBits    *)
(* fractional bits: a double d is the integer floor(d * 2^FracBits), and   *)
(* every multiplication and division rounds, as every double operation     *)
(* does.  Pixel indices, counters and sizes are plain integers.            *)
(***************************************************************************)
EXTENDS Integers, Sequences, FiniteSets, TLC

\* ---------------------------------------------------------------- bounds
MaxFullWidth == 3
MaxFullHeight == 3
MaxGrid == 2
MaxHC == 1
MaxIterBound == 2
FracBits == 6

\* ------------------------------------------------------ program constants
\* let cenX = -1; let cenY = 0; let zoom = 1;
cenX == -1
cenY == 0
zoom == 1

VARIABLES
  hardwareConcurrency, \* navigator.hardwareConcurrency: {} (absent) or {n}
  FULL_WIDTH, FULL_HEIGHT, ROWS, COLS, ROW, COL, MAX_ITER,
  pc,                  \* "load" before setup() has run, "run" after
  tileX, tileY, tileWidth, tileHeight,
  workers,             \* the workers array: set of worker indices in it
  terminated,          \* workers on which terminate() was called
  completedWorkers,
  inbox,               \* inbox[i]: message posted to worker i, not yet handled
  outbox,              \* outbox[i]: result posted by worker i, not yet handled
  posted,              \* posted[i]: the message worker.postMessage gave worker i
  canvas,              \* canvas[<<y, x>>]: the pixel at row y, column x
  reported,            \* the workers whose result was copied and counted, in
                       \* the order of the console.log lines that say so
  errors,              \* workers whose error event was logged (line 122)
  saved                \* the images handed to saveCanvas, in order

vars == <<hardwareConcurrency, FULL_WIDTH, FULL_HEIGHT, ROWS, COLS, ROW, COL,
          MAX_ITER, pc, tileX, tileY, tileWidth, tileHeight, workers,
          terminated, completedWorkers, inbox, outbox, posted, canvas,
          reported, errors, saved>>

config == <<hardwareConcurrency, FULL_WIDTH, FULL_HEIGHT, ROWS, COLS, ROW, COL,
            MAX_ITER>>

\* ------------------------------------------------------------- arithmetic
Min(a, b) == IF a < b THEN a ELSE b

Scale == 2 ^ FracBits

\* An integer as a double.
Num(n) == n * Scale

\* a * b on doubles.
Mul(a, b) == (a * b) \div Scale

\* a / b on doubles (b is never 0 here: sizes are positive).
Div(a, b) == (a * Scale) \div b

\* Math.floor(a / b) and Math.ceil(a / b) for integers a >= 0, b > 0.
Floor(a, b) == a \div b

Ceil(a, b) == (a + b - 1) \div b

\* ----------------------------------------------------------- WORKER_COUNT
\* navigator.hardwareConcurrency + 2: NaN (the empty set) when the property
\* is absent.
Plus2(hc) == {n + 2 : n \in hc}

\* v || d: d when v is falsy (NaN or 0), v otherwise.
OrElse(v, d) == IF v = {} \/ v = {0} THEN d ELSE CHOOSE n \in v : TRUE

WorkerCountMutant(hc) == IF hc = {} THEN 4 ELSE CHOOSE n \in hc : TRUE

WorkerCount(hc) == OrElse(Plus2(hc), 4)

WORKER_COUNT == WorkerCount(hardwareConcurrency)

\* const ASPECT_RATIO = FULL_WIDTH / FULL_HEIGHT;
AspectRatio(fw, fh) == Div(Num(fw), Num(fh))

ASPECT_RATIO == AspectRatio(FULL_WIDTH, FULL_HEIGHT)

\* ------------------------------------------------------------ setup(): tile
TileSizeMutant(full, n, k) == Floor(full, n)

\* tileWidth / tileHeight of tile index k of n along an axis of `full` pixels.
TileSize(full, n, k) ==
  LET size == Floor(full, n)
      extra == full - size * n
  IN  IF k = n - 1 THEN size + extra ELSE size

\* tileX / tileY of tile index k.
TileOffset(full, n, k) == k * Floor(full, n)

\* The rectangle setup() computes for tile (row, col) of a rows x cols grid.
Tile(fw, fh, rows, cols, row, col) ==
  [x |-> TileOffset(fw, cols, col), y |-> TileOffset(fh, rows, row),
   w |-> TileSize(fw, cols, col),   h |-> TileSize(fh, rows, row)]

\* ---------------------------------------- renderTileWithWorkers(): strips
TileStripHeightMutant(h, w) == Floor(h, w)

\* const tileStripHeight = Math.ceil(tileHeight / WORKER_COUNT);
TileStripHeight(h, w) == Ceil(h, w)

\* const startYInTile = i * tileStripHeight;
StartYInTile(i, h, w) == i * TileStripHeight(h, w)

EndYMutant(i, h, w) == Min(StartYInTile(i, h, w) + TileStripHeight(h, w) + 1, h)

\* const endYInTile = Math.min(startYInTile + tileStripHeight, tileHeight);
EndYInTile(i, h, w) == Min(StartYInTile(i, h, w) + TileStripHeight(h, w), h)

\* if (startYInTile >= endYInTile): the strip gets no work.
EmptyStrip(i, h, w) == StartYInTile(i, h, w) >= EndYInTile(i, h, w)

\* The message posted to worker i for tile t of a full image fw x fh.
Message(i, t, fw, fh, w, maxIter) ==
  [tileWidth |-> t.w, tileHeight |-> t.h,
   startYInTile |-> StartYInTile(i, t.h, w),
   endYInTile |-> EndYInTile(i, t.h, w),
   fullWidth |-> fw, fullHeight |-> fh,
   tileOffsetX |-> t.x, tileOffsetY |-> t.y,
   maxIter |-> maxIter,
   cenX |-> Num(cenX), cenY |-> Num(cenY), zoom |-> Num(zoom),
   aspectRatio |-> AspectRatio(fw, fh)]

\* ------------------------------------------------------- the worker script
XScaleMutant(m) ==
  Div(Mul(Mul(m.zoom, Num(2)), m.aspectRatio), Num(m.tileWidth))

\* const xScale = (zoom * 2 * aspectRatio) / fullWidth;
XScale(m) == Div(Mul(Mul(m.zoom, Num(2)), m.aspectRatio), Num(m.fullWidth))

\* const yScale = (zoom * 2) / fullHeight;
YScale(m) == Div(Mul(m.zoom, Num(2)), Num(m.fullHeight))

\* const globalX = tileOffsetX + x;
GlobalX(m, x) == m.tileOffsetX + x

\* const globalY = tileOffsetY + y;
GlobalY(m, y) == m.tileOffsetY + y

\* const cx = (globalX - fullWidth / 2) * xScale + cenX;
Cx(m, x) ==
  Mul(Num(GlobalX(m, x)) - Div(Num(m.fullWidth), Num(2)), XScale(m)) + m.cenX

\* const cy = (globalY - fullHeight / 2) * yScale + cenY;
Cy(m, y) ==
  Mul(Num(GlobalY(m, y)) - Div(Num(m.fullHeight), Num(2)), YScale(m)) + m.cenY

\* The escape loop from the state (zx, zy, zx2, zy2, iter): the values of
\* iter, zx2 and zy2 when the while loop ends.
RECURSIVE Escape(_, _, _, _, _, _, _, _)
Escape(cx, cy, zx, zy, zx2, zy2, iter, maxIter) ==
  IF zx2 + zy2 < Num(4) /\ iter < maxIter
    THEN LET zy1 == Mul(Mul(Num(2), zx), zy) + cy
             zx1 == zx2 - zy2 + cx
         IN  Escape(cx, cy, zx1, zy1, Mul(zx1, zx1), Mul(zy1, zy1),
                    iter + 1, maxIter)
    ELSE [iter |-> iter, zx2 |-> zx2, zy2 |-> zy2]

\* let zx = 0, zy = 0; let zx2 = 0, zy2 = 0; let iter = 0; while ...
Iterate(cx, cy, maxIter) == Escape(cx, cy, 0, 0, 0, 0, 0, maxIter)

\* Pixels.  The canvas starts transparent (Blank).  Black is the four bytes
\* 0, 0, 0, 255.  The colour mapper's bytes are a function of iter, zx2 + zy2
\* and maxIter through Math.sqrt and Math.log, which have no counterpart
\* here: a coloured pixel keeps the mapper's arguments, with alpha 255.
Blank == [kind |-> "blank", iter |-> 0, zn2 |-> 0, a |-> 0]

Black == [kind |-> "black", iter |-> 0, zn2 |-> 0, a |-> 255]

Shade(iter, zn2) == [kind |-> "hsb", iter |-> iter, zn2 |-> zn2, a |-> 255]

ClassifyMutant(e, maxIter) ==
  IF e.zx2 + e.zy2 < Num(4) THEN Black ELSE Shade(e.iter, e.zx2 + e.zy2)

\* if (iter === maxIter) { black } else { colour }
Classify(e, maxIter) ==
  IF e.iter = maxIter THEN Black ELSE Shade(e.iter, e.zx2 + e.zy2)

\* The pixel the worker writes for column x of tile row y.
PixelAt(m, x, y) == Classify(Iterate(Cx(m, x), Cy(m, y), m.maxIter), m.maxIter)

\* The index of pixel (x, y) in the worker's buffer, in pixels (4 bytes each):
\* rowOffset + x * 4 with rowOffset = (y - startYInTile) * tileWidth * 4.
PixelIndex(m, x, y) == (y - m.startYInTile) * m.tileWidth + x

\* The buffer the worker fills for message m: a function from pixel index to
\* pixel, of tileWidth * rows entries.
Pixels(m) ==
  LET rows == m.endYInTile - m.startYInTile
      cells == {<<x, y>> : x \in 0 .. m.tileWidth - 1,
                           y \in m.startYInTile .. m.endYInTile - 1}
  IN  [k \in 0 .. m.tileWidth * rows - 1 |->
         LET c == CHOOSE c \in cells : PixelIndex(m, c[1], c[2]) = k
         IN  PixelAt(m, c[1], c[2])]

\* postMessage({pixels: pixels.buffer, startYInTile, endYInTile})
Result(m) == [pixels |-> Pixels(m), startYInTile |-> m.startYInTile,
              endYInTile |-> m.endYInTile]

PutRowMutant(dy) == 0

\* The canvas row putImageData(imageData, 0, dy) starts at.
PutRow(dy) == dy

\* drawingContext.putImageData(new ImageData(pixels, sw, sh), 0, dy): image
\* row r, column c goes to canvas row dy + r, column c, inside the canvas.
PutImageData(cv, pixels, sw, sh, dy) ==
  [p \in DOMAIN cv |->
     LET r == p[1] - PutRow(dy)
         c == p[2]
     IN  IF r >= 0 /\ r < sh /\ c >= 0 /\ c < sw
           THEN pixels[r * sw + c]
           ELSE cv[p]]

\* createCanvas(tileWidth, tileHeight): a transparent canvas.
CreateCanvas(w, h) == [p \in (0 .. h - 1) \X (0 .. w - 1) |-> Blank]

\* ------------------------------------------------------------------ state
Indices == 0 .. WORKER_COUNT - 1

\* The page as loaded: the constants at the top of the script hold some
\* positive image size and grid, any tile index (ROW and COL are set by hand
\* and nothing checks them) and any iteration cap; nothing has run.
Init ==
  /\ hardwareConcurrency \in {{}} \cup {{n} : n \in 0 .. MaxHC}
  /\ FULL_WIDTH \in 1 .. MaxFullWidth
  /\ FULL_HEIGHT \in 1 .. MaxFullHeight
  /\ ROWS \in 1 .. MaxGrid
  /\ COLS \in 1 .. MaxGrid
  /\ ROW \in 0 .. MaxGrid
  /\ COL \in 0 .. MaxGrid
  /\ MAX_ITER \in 1 .. MaxIterBound
  /\ pc = "load"
  /\ tileX = 0 /\ tileY = 0 /\ tileWidth = 0 /\ tileHeight = 0
  /\ workers = {}
  /\ terminated = {}
  /\ completedWorkers = 0
  /\ inbox = [i \in Indices |-> {}]
  /\ outbox = [i \in Indices |-> {}]
  /\ canvas = CreateCanvas(0, 0)
  /\ posted = [i \in Indices |-> {}]
  /\ reported = <<>>
  /\ errors = {}
  /\ saved = <<>>

\* setup(), with the renderTileWithWorkers() call that ends it: the tile's
\* geometry, the canvas, one worker per strip, a message to every worker whose
\* strip is not empty; a worker with an empty strip is terminated and counted.
Setup ==
  /\ pc = "load"
  /\ pc' = "run"
  /\ LET t == Tile(FULL_WIDTH, FULL_HEIGHT, ROWS, COLS, ROW, COL)
         empty == {i \in Indices : EmptyStrip(i, t.h, WORKER_COUNT)}
     IN  /\ tileX' = t.x
         /\ tileY' = t.y
         /\ tileWidth' = t.w
         /\ tileHeight' = t.h
         /\ canvas' = CreateCanvas(t.w, t.h)
         /\ workers' = Indices
         /\ terminated' = empty
         /\ completedWorkers' = Cardinality(empty)
         /\ inbox' = [i \in Indices |->
                        IF i \in empty THEN {}
                        ELSE {Message(i, t, FULL_WIDTH, FULL_HEIGHT,
                                      WORKER_COUNT, MAX_ITER)}]
         /\ posted' = inbox'
  /\ outbox' = [i \in Indices |-> {}]
  /\ UNCHANGED <<config, reported, errors, saved>>

\* The worker script's onmessage: worker i renders its rows and posts them.
WorkerRun(i) ==
  /\ inbox[i] # {}
  /\ i \notin terminated
  /\ inbox' = [inbox EXCEPT ![i] = {}]
  /\ outbox' = [outbox EXCEPT ![i] = {Result(m) : m \in inbox[i]}]
  /\ UNCHANGED <<config, pc, tileX, tileY, tileWidth, tileHeight, workers,
                 terminated, completedWorkers, posted, canvas, reported, errors,
                 saved>>

AfterErrorMutant(n) == n + 1

\* worker.onerror only logs: the value it leaves in completedWorkers.
AfterError(n) == n

\* Worker i's script fails on its message: it posts nothing, and the main
\* thread's worker.onerror logs the event.
WorkerError(i) ==
  /\ inbox[i] # {}
  /\ i \notin terminated
  /\ inbox' = [inbox EXCEPT ![i] = {}]
  /\ errors' = errors \cup {i}
  /\ completedWorkers' = AfterError(completedWorkers)
  /\ UNCHANGED <<config, pc, tileX, tileY, tileWidth, tileHeight, workers,
                 terminated, outbox, posted, canvas, reported, saved>>

\* new ImageData(pixels, sw, sh) throws when the width or the height is 0 (the
\* buffer is then empty): the handler ends there.
ImageDataThrows(sw, sh) == sw = 0 \/ sh = 0

CompleteMutant(n) == n >= WORKER_COUNT - 1

\* if (completedWorkers === WORKER_COUNT)
Complete(n) == n = WORKER_COUNT

\* The main thread's worker.onmessage for worker i's result.
OnMessage(i) ==
  /\ outbox[i] # {}
  /\ outbox' = [outbox EXCEPT ![i] = {}]
  /\ LET data == CHOOSE d \in outbox[i] : TRUE
         rowCount == data.endYInTile - data.startYInTile
     IN  IF ImageDataThrows(tileWidth, rowCount)
           THEN UNCHANGED <<canvas, completedWorkers, reported, saved,
                            workers, terminated>>
           ELSE /\ canvas' = PutImageData(canvas, data.pixels, tileWidth,
                                          rowCount, data.startYInTile)
                /\ completedWorkers' = completedWorkers + 1
                /\ reported' = Append(reported, i)
                /\ IF Complete(completedWorkers')
                     THEN /\ saved' = Append(saved, canvas')
                          /\ terminated' = terminated \cup workers \cup {i}
                          /\ workers' = {}
                     ELSE /\ saved' = saved
                          /\ terminated' = terminated \cup {i}
                          /\ workers' = workers
  /\ UNCHANGED <<config, pc, tileX, tileY, tileWidth, tileHeight, inbox, posted,
                 errors>>

Next ==
  \/ Setup
  \/ \E i \in Indices : WorkerRun(i)
  \/ \E i \in Indices : WorkerError(i)
  \/ \E i \in Indices : OnMessage(i)

Spec == Init /\ [][Next]_vars

\* The page up to the end of setup(): what the configuration makes of the
\* tile, the strips and the messages, before any worker has answered.
SetupSpec == Init /\ [][Setup]_vars

\* The steps of a render in which no worker fails.
NoFailure ==
  \/ Setup
  \/ \E i \in Indices : WorkerRun(i)
  \/ \E i \in Indices : OnMessage(i)

\* A render in which no worker fails and nothing waits for ever: p5 calls
\* setup() once the page has loaded, a worker handles the message posted to
\* it, and the main thread's event loop delivers every result a worker posts.
\* Every step consumes a message or the pending setup(), so fairness of the
\* steps as a whole runs each of them.
FairSpec == Init /\ [][NoFailure]_vars /\ WF_vars(NoFailure)

\* ----------------------------------------------------------------- claims
\* The pixels (x, y), in tile coordinates, of the strip message m covers.
StripPixels(m) ==
  (0 .. m.tileWidth - 1) \X (m.startYInTile .. m.endYInTile - 1)

\* Tile t holds the global pixel (gx, gy).
Holds(t, gx, gy) ==
  /\ t.x <= gx /\ gx < t.x + t.w
  /\ t.y <= gy /\ gy < t.y + t.h

\* Every grid and tile index a page may be set to: <<ROWS, COLS, ROW, COL>>.
Grids == (1 .. MaxGrid) \X (1 .. MaxGrid) \X (0 .. MaxGrid) \X (0 .. MaxGrid)

\* C1 (alignment): for every pixel of every posted strip, the worker's
\* globalX, globalY are the pixel's position in the full image, and every
\* other tile configuration (grid and tile index) of the same full image
\* whose tile holds that pixel makes the worker of the strip that holds it
\* compute the same global position and the same complex point (cx, cy).
C1_Alignment ==
  \A i \in Indices : \A m \in posted[i] : \A p \in StripPixels(m) :
    LET gx == tileX + p[1]
        gy == tileY + p[2]
    IN  /\ GlobalX(m, p[1]) = gx
        /\ GlobalY(m, p[2]) = gy
        /\ \A g \in Grids :
             LET t2 == Tile(FULL_WIDTH, FULL_HEIGHT, g[1], g[2], g[3], g[4])
             IN  Holds(t2, gx, gy) =>
                   \A j \in Indices :
                     LET m2 == Message(j, t2, FULL_WIDTH, FULL_HEIGHT,
                                       WORKER_COUNT, MAX_ITER)
                         x2 == gx - t2.x
                         y2 == gy - t2.y
                     IN  <<x2, y2>> \in StripPixels(m2) =>
                           /\ GlobalX(m2, x2) = gx
                           /\ GlobalY(m2, y2) = gy
                           /\ Cx(m2, x2) = Cx(m, p[1])
                           /\ Cy(m2, y2) = Cy(m, p[2])

\* C1 witness: a strip is posted for a tile that is not at the image's origin
\* and is narrower than the image, and the one-tile grid holds the strip's
\* pixels at other tile coordinates.
C1_Witness ==
  \E i \in Indices : \E m \in posted[i] :
    /\ tileX > 0 /\ tileY > 0
    /\ tileWidth > 0 /\ tileWidth < FULL_WIDTH
    /\ Holds(Tile(FULL_WIDTH, FULL_HEIGHT, 1, 1, 0, 0),
             tileX, tileY + m.startYInTile)

\* The tile indices <<row, col>> of the page's grid.
GridCells == (0 .. ROWS - 1) \X (0 .. COLS - 1)

RECURSIVE SumArea(_)
SumArea(cells) ==
  IF cells = {} THEN 0
  ELSE LET c == CHOOSE c \in cells : TRUE
           t == Tile(FULL_WIDTH, FULL_HEIGHT, ROWS, COLS, c[1], c[2])
       IN  t.w * t.h + SumArea(cells \ {c})

\* C2 (tile partition): the rectangles setup() computes for the tiles of the
\* ROWS x COLS grid lie inside the full image, every pixel of the full image
\* is in exactly one of them, their areas sum to FULL_WIDTH * FULL_HEIGHT, and
\* every tile but those of the last row (column) has the height (width) of the
\* integer division, the last ones taking the leftover pixels; the tile
\* setup() has set up, when its index is in the grid, is that rectangle.
C2_TilePartition ==
  /\ \A c \in GridCells :
       LET t == Tile(FULL_WIDTH, FULL_HEIGHT, ROWS, COLS, c[1], c[2])
       IN  /\ t.x >= 0 /\ t.y >= 0
           /\ t.x + t.w <= FULL_WIDTH /\ t.y + t.h <= FULL_HEIGHT
           /\ t.h = (FULL_HEIGHT \div ROWS)
                    + (IF c[1] = ROWS - 1 THEN FULL_HEIGHT % ROWS ELSE 0)
           /\ t.w = (FULL_WIDTH \div COLS)
                    + (IF c[2] = COLS - 1 THEN FULL_WIDTH % COLS ELSE 0)
  /\ \A gx \in 0 .. FULL_WIDTH - 1 : \A gy \in 0 .. FULL_HEIGHT - 1 :
       Cardinality({c \in GridCells :
                      Holds(Tile(FULL_WIDTH, FULL_HEIGHT, ROWS, COLS,
                                 c[1], c[2]), gx, gy)}) = 1
  /\ SumArea(GridCells) = FULL_WIDTH * FULL_HEIGHT
  /\ (pc = "run" /\ ROW < ROWS /\ COL < COLS) =>
       /\ [x |-> tileX, y |-> tileY, w |-> tileWidth, h |-> tileHeight]
            = Tile(FULL_WIDTH, FULL_HEIGHT, ROWS, COLS, ROW, COL)
       /\ Cardinality(DOMAIN canvas) = tileWidth * tileHeight

\* C2 witness: setup() has set up the last tile of a grid whose divisions
\* both leave pixels over, so the tile is larger than the others.
C2_Witness ==
  /\ pc = "run"
  /\ ROW = ROWS - 1 /\ COL = COLS - 1
  /\ FULL_HEIGHT % ROWS > 0 /\ FULL_WIDTH % COLS > 0
  /\ tileHeight > FULL_HEIGHT \div ROWS
  /\ tileWidth > FULL_WIDTH \div COLS

\* The rows of the tile covered by message m.
StripRows(m) == m.startYInTile .. m.endYInTile - 1

\* C3 (strip partition): once renderTileWithWorkers has run on a tile of
\* height >= 1, the row ranges of the posted strips are pairwise disjoint and
\* their union is exactly 0 .. tileHeight - 1.
C3_StripPartition ==
  (pc = "run" /\ tileHeight >= 1) =>
    /\ \A i, j \in Indices : \A m \in posted[i] : \A n \in posted[j] :
         i # j => StripRows(m) \cap StripRows(n) = {}
    /\ UNION {StripRows(m) : m \in UNION {posted[i] : i \in Indices}}
         = 0 .. tileHeight - 1

\* C3 witness: a tile of several rows was split into several posted strips,
\* with a worker left without work.
C3_Witness ==
  /\ pc = "run" /\ tileHeight >= 3
  /\ Cardinality({i \in Indices : posted[i] # {}}) >= 2
  /\ \E i \in Indices : posted[i] = {}

\* The workers that were given a strip, and those whose result is counted.
Dispatched == {i \in Indices : posted[i] # {}}

Reported == {reported[k] : k \in 1 .. Len(reported)}

\* C4 (completion safety): saveCanvas and the terminate-all cleanup happen
\* only when every posted strip has reported and its rows are in the saved
\* image, and completedWorkers, which also counts the empty strips, is below
\* WORKER_COUNT while a posted strip has not reported.
C4_CompletionSafety ==
  /\ (Dispatched \ Reported # {}) =>
       /\ completedWorkers < WORKER_COUNT
       /\ saved = <<>>
       /\ (pc = "run" => workers = Indices)
  /\ \A k \in 1 .. Len(saved) : \A i \in Dispatched : \A m \in posted[i] :
       /\ i \in Reported
       /\ \A q \in StripPixels(m) : saved[k][<<q[2], q[1]>>].kind # "blank"
  /\ pc = "run" =>
       completedWorkers = Cardinality(Indices \ Dispatched) + Len(reported)

\* C4 witness: the canvas was saved for a tile with several posted strips and
\* an empty one, counted when the strips were posted.
C4_Witness ==
  /\ Len(saved) = 1
  /\ Cardinality(Dispatched) >= 2
  /\ Indices \ Dispatched # {}
  /\ workers = {}

\* The message a single worker gets for the whole tile: rows 0 .. tileHeight.
WholeTile ==
  [tileWidth |-> tileWidth, tileHeight |-> tileHeight,
   startYInTile |-> 0, endYInTile |-> tileHeight,
   fullWidth |-> FULL_WIDTH, fullHeight |-> FULL_HEIGHT,
   tileOffsetX |-> tileX, tileOffsetY |-> tileY,
   maxIter |-> MAX_ITER,
   cenX |-> Num(cenX), cenY |-> Num(cenY), zoom |-> Num(zoom),
   aspectRatio |-> ASPECT_RATIO]

\* C5 (strip reassembly): the image given to saveCanvas is, pixel for pixel in
\* row-major order, the buffer one worker fills for rows 0 .. tileHeight of
\* the same tile, whatever the order in which the strips reported.
C5_StripReassembly ==
  \A k \in 1 .. Len(saved) :
    /\ DOMAIN saved[k] = (0 .. tileHeight - 1) \X (0 .. tileWidth - 1)
    /\ \A y \in 0 .. tileHeight - 1 : \A x \in 0 .. tileWidth - 1 :
         saved[k][<<y, x>>] = Pixels(WholeTile)[y * tileWidth + x]

\* C5 witness: the canvas was saved after a later strip reported before an
\* earlier one, the tile being more than one pixel wide.
C5_Witness ==
  /\ Len(saved) = 1
  /\ tileWidth >= 2
  /\ \E a, b \in 1 .. Len(reported) : a < b /\ reported[a] > reported[b]

\* The escape results behind the pixels of the results in flight: for each
\* result worker i has posted, the loop's outcome for every pixel of its strip
\* and the pixel the result holds there.
Outcomes ==
  {[e |-> Iterate(Cx(m, q[1]), Cy(m, q[2]), m.maxIter),
    maxIter |-> m.maxIter,
    pixel |-> r.pixels[PixelIndex(m, q[1], q[2])]] :
     <<m, r, q>> \in
       UNION {{<<m, r, q>> : q \in StripPixels(m)} :
                <<m, r>> \in UNION {posted[i] \X outbox[i] : i \in Indices}}}

\* C6 as stated: iter is in 0 .. maxIter; iter = maxIter goes with a final
\* zx2 + zy2 < 4 and a black pixel; otherwise iter < maxIter, zx2 + zy2 >= 4
\* and the pixel is the colour mapper's; so a point whose orbit reaches the
\* radius on the maxIter-th iteration is coloured.
C6_AsStated ==
  \A o \in Outcomes :
    /\ o.e.iter \in 0 .. o.maxIter
    /\ o.e.iter = o.maxIter =>
         /\ o.e.zx2 + o.e.zy2 < Num(4)
         /\ o.pixel = Black
    /\ o.e.iter # o.maxIter =>
         /\ o.e.iter < o.maxIter
         /\ o.e.zx2 + o.e.zy2 >= Num(4)
         /\ o.pixel = Shade(o.e.iter, o.e.zx2 + o.e.zy2)
    /\ o.e.zx2 + o.e.zy2 >= Num(4) => o.pixel # Black

\* C6 (escape classification, amended): iter is in 0 .. maxIter; iter =
\* maxIter is written as black whatever the final zx2 + zy2; iter < maxIter
\* goes with zx2 + zy2 >= 4 and the colour mapper's pixel; a final
\* zx2 + zy2 < 4 always goes with iter = maxIter.
C6_EscapeClassification ==
  \A o \in Outcomes :
    /\ o.e.iter \in 0 .. o.maxIter
    /\ o.e.iter = o.maxIter => o.pixel = Black
    /\ o.e.iter # o.maxIter =>
         /\ o.e.iter < o.maxIter
         /\ o.e.zx2 + o.e.zy2 >= Num(4)
         /\ o.pixel = Shade(o.e.iter, o.e.zx2 + o.e.zy2)
    /\ o.e.zx2 + o.e.zy2 < Num(4) => o.e.iter = o.maxIter

\* C6 witness: one result in flight holds a pixel whose orbit reached the
\* radius on the maxIter-th iteration and is black, and, with a cap above 1,
\* some result holds a pixel that never reached it and one that escaped
\* before the cap.
C6_Witness ==
  /\ \E o \in Outcomes :
       /\ o.e.iter = o.maxIter /\ o.maxIter > 1
       /\ o.e.zx2 + o.e.zy2 >= Num(4)
       /\ o.pixel = Black
  /\ \E o \in Outcomes :
       o.e.iter = o.maxIter /\ o.e.zx2 + o.e.zy2 < Num(4)
  /\ \E o \in Outcomes : o.e.iter < o.maxIter /\ o.pixel.kind = "hsb"

\* C7 (a failed worker hangs the tile): once a posted strip's worker has
\* failed, the failure is in the error log only: the strip is not among the
\* reported ones, completedWorkers counts the empty strips and the reported
\* ones and stays below WORKER_COUNT, and nothing is saved and the workers
\* array is not cleared, in this and every later state.
C7_FailureHangs ==
  errors # {} =>
    /\ errors \subseteq Dispatched \ Reported
    /\ completedWorkers = Cardinality(Indices \ Dispatched) + Len(reported)
    /\ completedWorkers < WORKER_COUNT
    /\ saved = <<>>
    /\ workers = Indices

\* C7 witness: one worker failed, every other posted strip (there are some)
\* reported, no message is in flight: the render has stopped without saving.
C7_Witness ==
  /\ Cardinality(errors) = 1
  /\ Len(reported) >= 2
  /\ Dispatched = errors \cup Reported
  /\ \A i \in Indices : inbox[i] = {} /\ outbox[i] = {}
  /\ saved = <<>>

\* C8 as stated: WORKER_COUNT is hardwareConcurrency + 2 whenever the host
\* reports a number, and is never less than 4.
C8_AsStated ==
  /\ \A n \in hardwareConcurrency : WORKER_COUNT = n + 2
  /\ WORKER_COUNT >= 4

\* C8 (worker pool size, amended): WORKER_COUNT is hardwareConcurrency + 2
\* whenever the host reports a number, zero included (so 2 for zero and 3 for
\* one), and 4 when the property is absent; it is never less than 2, and
\* renderTileWithWorkers creates that many workers, which stay in the workers
\* array until the canvas is saved.
C8_WorkerCount ==
  /\ \A n \in hardwareConcurrency : WORKER_COUNT = n + 2
  /\ hardwareConcurrency = {} => WORKER_COUNT = 4
  /\ WORKER_COUNT >= 2
  /\ DOMAIN posted = 0 .. WORKER_COUNT - 1
  /\ (pc = "run" /\ saved = <<>>) => workers = 0 .. WORKER_COUNT - 1

\* C8 witness: the host reports one hardware thread and setup() has created
\* three workers.
C8_Witness ==
  /\ pc = "run"
  /\ hardwareConcurrency = {1}
  /\ Cardinality(workers) = 3

\* The number of rows of the strip of worker i: 0 for an empty strip.
RowsOf(i) ==
  LET n == EndYInTile(i, tileHeight, WORKER_COUNT)
             - StartYInTile(i, tileHeight, WORKER_COUNT)
  IN  IF n > 0 THEN n ELSE 0

\* ceil(tileHeight / WORKER_COUNT): the least s with s * WORKER_COUNT >=
\* tileHeight.
CeilRows ==
  CHOOSE s \in 0 .. tileHeight :
    s * WORKER_COUNT >= tileHeight /\ (s - 1) * WORKER_COUNT < tileHeight

\* C9 as stated: every strip except the last of the WORKER_COUNT strips has
\* exactly ceil(tileHeight / WORKER_COUNT) rows.
C9_AsStated ==
  (pc = "run" /\ tileHeight >= 1) =>
    \A i \in Indices : i < WORKER_COUNT - 1 => RowsOf(i) = CeilRows

\* C9 (strip sizing, amended): on a tile of height >= 1 the strips with rows
\* are the first k of the WORKER_COUNT strips, k >= 1; each of them but the
\* k-th has exactly ceil(tileHeight / WORKER_COUNT) rows and starts where the
\* one before ends, the k-th has between 1 and that many rows and ends at
\* tileHeight; the strips after the k-th (there may be several, not only the
\* last) are empty: no message is posted for them, their worker is terminated
\* and they are counted in completedWorkers at once.
C9_StripSizing ==
  (pc = "run" /\ tileHeight >= 1) =>
    \E k \in 1 .. WORKER_COUNT :
      /\ Dispatched = 0 .. k - 1
      /\ \A i \in 0 .. k - 1 : \A m \in posted[i] :
           /\ m.startYInTile = i * CeilRows
           /\ i < k - 1 => m.endYInTile - m.startYInTile = CeilRows
           /\ i = k - 1 =>
                /\ m.endYInTile = tileHeight
                /\ m.endYInTile - m.startYInTile \in 1 .. CeilRows
      /\ \A i \in k .. WORKER_COUNT - 1 :
           /\ posted[i] = {}
           /\ i \in terminated
      /\ completedWorkers = (WORKER_COUNT - k) + Len(reported)

\* C9 witness: several strips were posted, and a strip that is not the last
\* one is empty and counted.
C9_Witness ==
  /\ pc = "run" /\ tileHeight >= 1
  /\ Cardinality(Dispatched) >= 2
  /\ \E i \in Indices :
       i < WORKER_COUNT - 1 /\ posted[i] = {} /\ i \in terminated
  /\ completedWorkers >= 2

\* The tile of the page's configuration reaches outside the full image or has
\* a width or height of zero or less.
InvalidGeometry ==
  LET t == Tile(FULL_WIDTH, FULL_HEIGHT, ROWS, COLS, ROW, COL)
  IN  \/ t.w <= 0 \/ t.h <= 0
      \/ t.x < 0 \/ t.y < 0
      \/ t.x + t.w > FULL_WIDTH
      \/ t.y + t.h > FULL_HEIGHT

Saves == Len(saved') = Len(saved) + 1

\* The step is the onmessage handler of the last posted strip to report.
LastReport ==
  \E i \in Dispatched :
    /\ reported' = Append(reported, i)
    /\ Dispatched \ Reported = {i}

\* C11 (completion liveness, exactly once): in a render without failures and
\* with fair delivery, on a tile of height >= 1 the canvas is eventually
\* saved; it is never saved twice; the step that saves it is the handler of
\* the last strip to report; and once it is saved every created worker has
\* been terminated and the workers array is empty.
C11_CompletionLiveness ==
  /\ (pc = "run" /\ tileHeight >= 1) ~> (Len(saved) = 1)
  /\ [](Len(saved) <= 1)
  /\ [][Saves => LastReport]_vars
  /\ [](Len(saved) = 1 => (terminated = Indices /\ workers = {}))

\* C11 on the tiles that are at least one pixel wide, where new ImageData
\* does not throw: the same four statements.
C11_OnWideTiles ==
  /\ (pc = "run" /\ tileHeight >= 1 /\ tileWidth >= 1) ~> (Len(saved) = 1)
  /\ [](Len(saved) <= 1)
  /\ [][Saves => LastReport]_vars
  /\ [](Len(saved) = 1 => (terminated = Indices /\ workers = {}))

\* A render of a tile of height >= 1 that has come to rest without saving:
\* every posted strip was rendered and its result delivered, no worker
\* failed, and the handlers threw at new ImageData on a tile of width 0.
C11_Hung ==
  /\ pc = "run" /\ tileHeight >= 1
  /\ errors = {}
  /\ Dispatched # {}
  /\ \A i \in Indices : inbox[i] = {} /\ outbox[i] = {}
  /\ saved = <<>>
  /\ completedWorkers < WORKER_COUNT

====
